---------------------------- MODULE Spec2Model ----------------------------
(***************************************************************************)
(* NHS letter pipeline: the upload handler (validation, text extraction,   *)
(* duplicate check, blob write, record write) and the S3-triggered         *)
(* enrichment worker (lookup, summarise, update), as concurrent Lambda     *)
(* invocations that share only the S3 bucket and the DynamoDB table.       *)
(*                                                                         *)
(* Strings whose characters the code inspects are sequences of one-        *)
(* character strings.  Null stands for JavaScript's null where a string is *)
(* expected: a sequence no string of characters is equal to.               *)
(***************************************************************************)
EXTENDS Naturals, Sequences, FiniteSets, Bags, TLC

Null == <<"null">>

\* JavaScript's falsy strings: null and the empty string
Falsy(s) == s = Null \/ s = <<>>

(***************************************************************************)
(* Bounds of the model.                                                    *)
(***************************************************************************)
\* number of upload requests
MaxUploads == 2
\* number of worker invocations that may run at the same time
MaxWorkers == 2
\* largest number of blob events in one worker invocation
MaxBatch == 2
\* last instant of the clock
MaxClock == 1
\* instants sampled per calendar month
TicksPerMonth == 1
\* spontaneous redeliveries of a blob event (at-least-once delivery)
MaxRedeliver == 1

Uploads == 1..MaxUploads
Workers == 1..MaxWorkers

(***************************************************************************)
(* Characters and strings.                                                 *)
(***************************************************************************)
IsSpace(c) == c \in {" ", "\t", "\n"}

DigitChars == <<"0", "1", "2", "3", "4", "5", "6", "7", "8", "9">>

IsDigit(c) == \E i \in 1..10 : DigitChars[i] = c

UpperChars == <<"A", "B", "C", "D", "E", "F", "G", "H", "I", "J", "K", "L", "M",
                "N", "O", "P", "Q", "R", "S", "T", "U", "V", "W", "X", "Y", "Z">>

LowerChars == <<"a", "b", "c", "d", "e", "f", "g", "h", "i", "j", "k", "l", "m",
                "n", "o", "p", "q", "r", "s", "t", "u", "v", "w", "x", "y", "z">>

\* String.prototype.toLowerCase on one character
LowerChar(c) ==
    IF \E i \in 1..26 : UpperChars[i] = c
    THEN LowerChars[CHOOSE i \in 1..26 : UpperChars[i] = c]
    ELSE c

toLowerCase(s) == [i \in 1..Len(s) |-> LowerChar(s[i])]

\* \w of a regular expression
IsWordChar(c) ==
    \/ IsDigit(c)
    \/ c = "_"
    \/ \E i \in 1..26 : UpperChars[i] = c \/ LowerChars[i] = c

RECURSIVE TrimStart(_)
TrimStart(s) ==
    IF s # <<>> /\ IsSpace(Head(s)) THEN TrimStart(Tail(s)) ELSE s

RECURSIVE TrimEnd(_)
TrimEnd(s) ==
    IF s # <<>> /\ IsSpace(s[Len(s)]) THEN TrimEnd(SubSeq(s, 1, Len(s) - 1)) ELSE s

\* String.prototype.trim
trim(s) == TrimEnd(TrimStart(s))

\* String.prototype.endsWith
endsWith(s, suffix) ==
    /\ Len(s) >= Len(suffix)
    /\ SubSeq(s, Len(s) - Len(suffix) + 1, Len(s)) = suffix

\* s.replace(/\s/g, "")
RemoveSpaces(s) == SelectSeq(s, LAMBDA c : ~IsSpace(c))

\* s.replace(/\s+/g, " ")
RECURSIVE CollapseSpaces(_)
CollapseSpaces(s) ==
    IF s = <<>> THEN <<>>
    ELSE IF IsSpace(Head(s))
         THEN <<" ">> \o CollapseSpaces(TrimStart(s))
         ELSE <<Head(s)>> \o CollapseSpaces(Tail(s))

\* decimal digits of a number, as template literals print it
RECURSIVE DecStr(_)
DecStr(n) ==
    IF n < 10 THEN <<DigitChars[n + 1]>>
    ELSE DecStr(n \div 10) \o <<DigitChars[(n % 10) + 1]>>

\* String(n).padStart(width, "0")
RECURSIVE padStart0(_, _)
padStart0(s, width) == IF Len(s) >= width THEN s ELSE padStart0(<<"0">> \o s, width)

\* order of two strings of digits and punctuation of the same layout
\* (the order DynamoDB gives a string sort key)
CharRank(c) == IF IsDigit(c) THEN CHOOSE i \in 1..10 : DigitChars[i] = c ELSE 0

RECURSIVE StrLess(_, _)
StrLess(a, b) ==
    IF b = <<>> THEN FALSE
    ELSE IF a = <<>> THEN TRUE
    ELSE IF Head(a) = Head(b) THEN StrLess(Tail(a), Tail(b))
    ELSE CharRank(Head(a)) < CharRank(Head(b))

(***************************************************************************)
(* pdf-extractor.mjs: regular expressions, matched as JavaScript matches   *)
(* them (leftmost start, greedy quantifiers, backtracking).                *)
(***************************************************************************)
\* whether s holds the literal lit at position i
HasAt(s, i, lit) ==
    /\ i >= 1
    /\ i + Len(lit) - 1 <= Len(s)
    /\ SubSeq(s, i, i + Len(lit) - 1) = lit

\* the same under the i flag; lit is given in lower case
HasAtCI(s, i, lit) ==
    /\ i >= 1
    /\ i + Len(lit) - 1 <= Len(s)
    /\ toLowerCase(SubSeq(s, i, i + Len(lit) - 1)) = lit

\* \s* from position i: the first position that holds no whitespace
RECURSIVE SkipSpaces(_, _)
SkipSpaces(s, i) ==
    IF i <= Len(s) /\ IsSpace(s[i]) THEN SkipSpaces(s, i + 1) ELSE i

\* [\d\s]* from position i: the first position that holds neither
RECURSIVE SkipDigitsSpaces(_, _)
SkipDigitsSpaces(s, i) ==
    IF i <= Len(s) /\ (IsDigit(s[i]) \/ IsSpace(s[i]))
    THEN SkipDigitsSpaces(s, i + 1) ELSE i

\* \d{n} at position i
DigitsAt(s, i, n) ==
    /\ i >= 1
    /\ i + n - 1 <= Len(s)
    /\ \A k \in i..(i + n - 1) : IsDigit(s[k])

\* the match of a pattern at its leftmost start; Null when it matches nowhere
FirstMatch(text, MatchAt(_, _)) ==
    LET found == [i \in 1..Len(text) |-> MatchAt(text, i)]
        hits == {i \in 1..Len(text) : found[i] # Null}
    IN  IF hits = {} THEN Null
        ELSE found[CHOOSE i \in hits : \A j \in hits : i <= j]

\* /NHS\s*No\.?\s*[:\-]?\s*([\d\s]+)/i at start i: capture group 1, or Null.
\* When the greedy \s* leave the group nothing, the last \s* that took
\* whitespace gives one character back and the group is that character.
NhsMatchAt(text, i) ==
    IF ~HasAtCI(text, i, <<"n", "h", "s">>) THEN Null
    ELSE LET b == SkipSpaces(text, i + 3)
         IN  IF ~HasAtCI(text, b, <<"n", "o">>) THEN Null
             ELSE LET c == b + 2
                      d == IF HasAt(text, c, <<".">>) THEN c + 1 ELSE c
                      e == SkipSpaces(text, d)
                      f == IF HasAt(text, e, <<":">>) \/ HasAt(text, e, <<"-">>)
                           THEN e + 1 ELSE e
                      g == SkipSpaces(text, f)
                      h == SkipDigitsSpaces(text, g)
                  IN  IF h > g THEN <<SubSeq(text, g, h - 1)>>
                      ELSE IF g > f THEN <<<<text[g - 1]>>>>
                      ELSE IF e > d THEN <<<<text[e - 1]>>>>
                      ELSE Null

MonthNames ==
    << <<"j", "a", "n", "u", "a", "r", "y">>,
       <<"f", "e", "b", "r", "u", "a", "r", "y">>,
       <<"m", "a", "r", "c", "h">>,
       <<"a", "p", "r", "i", "l">>,
       <<"m", "a", "y">>,
       <<"j", "u", "n", "e">>,
       <<"j", "u", "l", "y">>,
       <<"a", "u", "g", "u", "s", "t">>,
       <<"s", "e", "p", "t", "e", "m", "b", "e", "r">>,
       <<"o", "c", "t", "o", "b", "e", "r">>,
       <<"n", "o", "v", "e", "m", "b", "e", "r">>,
       <<"d", "e", "c", "e", "m", "b", "e", "r">> >>

\* the months table: month name (lower case) to "01".."12"
months(name) ==
    padStart0(DecStr(CHOOSE m \in 1..12 : MonthNames[m] = name), 2)

OrdinalSuffixes == {<<"s", "t">>, <<"n", "d">>, <<"r", "d">>, <<"t", "h">>}

\* the rest of the long form after the day and its suffix, from position p:
\* \s+(January|...|December)\s+(\d{4}); <<month name, year>> or Null
LongDateRest(text, p) ==
    LET q == SkipSpaces(text, p)
        ms == {m \in 1..12 : HasAtCI(text, q, MonthNames[m])}
    IN  IF q = p \/ ms = {} THEN Null
        ELSE LET m == CHOOSE x \in ms : \A y \in ms : x <= y
                 r == q + Len(MonthNames[m])
                 s == SkipSpaces(text, r)
             IN  IF s > r /\ DigitsAt(text, s, 4)
                 THEN <<MonthNames[m], SubSeq(text, s, s + 3)>>
                 ELSE Null

\* (\d{1,2})(?:st|nd|rd|th)? with a day of n digits at start i, then the rest
LongDateDay(text, i, n) ==
    IF ~DigitsAt(text, i, n) THEN Null
    ELSE LET p == i + n
             suffixed == \E x \in OrdinalSuffixes : HasAtCI(text, p, x)
             withSuffix == IF suffixed THEN LongDateRest(text, p + 2) ELSE Null
             rest == IF withSuffix # Null THEN withSuffix ELSE LongDateRest(text, p)
         IN  IF rest = Null THEN Null
             ELSE <<SubSeq(text, i, i + n - 1), rest[1], rest[2]>>

\* the long form at start i: <<day, month name, year>> or Null
LongDateAt(text, i) ==
    LET twoDigits == LongDateDay(text, i, 2)
    IN  IF twoDigits # Null THEN twoDigits ELSE LongDateDay(text, i, 1)

IsDateSep(text, i) == HasAt(text, i, <<"/">>) \/ HasAt(text, i, <<"-">>)

\* [\/\-](\d{1,2})[\/\-](\d{4}) from position p: <<month, year>> or Null
ShortDateRest(text, p) ==
    IF ~IsDateSep(text, p) THEN Null
    ELSE IF DigitsAt(text, p + 1, 2) /\ IsDateSep(text, p + 3)
            /\ DigitsAt(text, p + 4, 4)
         THEN <<SubSeq(text, p + 1, p + 2), SubSeq(text, p + 4, p + 7)>>
    ELSE IF DigitsAt(text, p + 1, 1) /\ IsDateSep(text, p + 2)
            /\ DigitsAt(text, p + 3, 4)
         THEN <<SubSeq(text, p + 1, p + 1), SubSeq(text, p + 3, p + 6)>>
    ELSE Null

\* (\d{1,2}) with a day of n digits at start i, then the rest
ShortDateDay(text, i, n) ==
    LET rest == IF DigitsAt(text, i, n) THEN ShortDateRest(text, i + n) ELSE Null
    IN  IF rest = Null THEN Null ELSE <<SubSeq(text, i, i + n - 1)>> \o rest

\* /(\d{1,2})[\/\-](\d{1,2})[\/\-](\d{4})/ at start i: <<day, month, year>>
ShortDateAt(text, i) ==
    LET twoDigits == ShortDateDay(text, i, 2)
    IN  IF twoDigits # Null THEN twoDigits ELSE ShortDateDay(text, i, 1)

\* /(\d{4})-(\d{2})-(\d{2})/ at start i: <<the whole match>>
IsoDateAt(text, i) ==
    IF /\ DigitsAt(text, i, 4) /\ HasAt(text, i + 4, <<"-">>)
       /\ DigitsAt(text, i + 5, 2) /\ HasAt(text, i + 7, <<"-">>)
       /\ DigitsAt(text, i + 8, 2)
    THEN <<SubSeq(text, i, i + 9)>>
    ELSE Null

\* extractLetterDate that tries the short numeric pattern before the long one
extractLetterDateShortFirst(text) ==
    LET longDateMatch == FirstMatch(text, LongDateAt)
        shortDateMatch == FirstMatch(text, ShortDateAt)
        isoDateMatch == FirstMatch(text, IsoDateAt)
    IN  IF shortDateMatch # Null
        THEN shortDateMatch[3] \o <<"-">> \o padStart0(shortDateMatch[2], 2)
             \o <<"-">> \o padStart0(shortDateMatch[1], 2)
        ELSE IF longDateMatch # Null
        THEN longDateMatch[3] \o <<"-">> \o months(longDateMatch[2]) \o <<"-">>
             \o padStart0(longDateMatch[1], 2)
        ELSE IF isoDateMatch # Null THEN isoDateMatch[1]
        ELSE Null

extractLetterDate(text) ==
    LET longDateMatch == FirstMatch(text, LongDateAt)
        shortDateMatch == FirstMatch(text, ShortDateAt)
        isoDateMatch == FirstMatch(text, IsoDateAt)
    IN  IF longDateMatch # Null
        THEN longDateMatch[3] \o <<"-">> \o months(longDateMatch[2]) \o <<"-">>
             \o padStart0(longDateMatch[1], 2)
        ELSE IF shortDateMatch # Null
        THEN shortDateMatch[3] \o <<"-">> \o padStart0(shortDateMatch[2], 2)
             \o <<"-">> \o padStart0(shortDateMatch[1], 2)
        ELSE IF isoDateMatch # Null THEN isoDateMatch[1]
        ELSE Null

\* /Dear\b[\s\S]*/ at start i: <<the whole match>>
DearMatchAt(text, i) ==
    IF /\ HasAt(text, i, <<"D", "e", "a", "r">>)
       /\ (i + 4 > Len(text) \/ ~IsWordChar(text[i + 4]))
    THEN <<SubSeq(text, i, Len(text))>>
    ELSE Null

\* what a caller of the extractor gets when text.match throws: text is
\* null or undefined, which have no property match
TypeError == [threw |-> "TypeError"]

extractNhsDetails(text) ==
    LET nhsMatch == FirstMatch(text, NhsMatchAt)
        bodyMatch == FirstMatch(text, DearMatchAt)
    IN  IF text = Null THEN TypeError ELSE
        [nhsNumber |-> IF nhsMatch # Null THEN CollapseSpaces(trim(nhsMatch[1]))
                       ELSE Null,
         letter_date |-> extractLetterDate(text),
         body |-> IF bodyMatch # Null THEN trim(bodyMatch[1]) ELSE Null]

\* getDatePartition that takes the first seven characters without matching
\* them against the pattern
getDatePartitionUnchecked(dateStr) ==
    IF Falsy(dateStr) THEN Null
    ELSE SubSeq(dateStr, 1, IF Len(dateStr) < 7 THEN Len(dateStr) ELSE 7)

\* /^(\d{4}-\d{2})/
getDatePartition(dateStr) ==
    IF Falsy(dateStr) THEN Null
    ELSE IF DigitsAt(dateStr, 1, 4) /\ HasAt(dateStr, 5, <<"-">>)
            /\ DigitsAt(dateStr, 6, 2)
         THEN SubSeq(dateStr, 1, 7)
    ELSE Null

(***************************************************************************)
(* The clock.  The instants 0..MaxClock sample real time: TicksPerMonth    *)
(* consecutive instants fall in one calendar month, and two reads of the   *)
(* clock at the same instant give the same millisecond.                    *)
(***************************************************************************)
Epoch == [year |-> 2025, month |-> 12]

MonthsSinceEpoch(t) == (Epoch.month - 1) + (t \div TicksPerMonth)

\* Date.prototype.getFullYear and getMonth (0-based)
getFullYear(t) == Epoch.year + (MonthsSinceEpoch(t) \div 12)

getMonth(t) == MonthsSinceEpoch(t) % 12

\* Date.prototype.toISOString: YYYY-MM-DDTHH:mm:ss.sssZ
toISOString(t) ==
    padStart0(DecStr(getFullYear(t)), 4) \o <<"-">>
    \o padStart0(DecStr(getMonth(t) + 1), 2)
    \o <<"-", "0", "1", "T", "0", "0", ":", "0", "0", ":", "0", "0", ".">>
    \o padStart0(DecStr(t % TicksPerMonth), 3) \o <<"Z">>

\* `${Date.now()}`
DateNowStr(t) == DecStr(t)

(***************************************************************************)
(* Upload requests.                                                        *)
(***************************************************************************)
ApplicationPdf ==
    <<"a", "p", "p", "l", "i", "c", "a", "t", "i", "o", "n", "/", "p", "d", "f">>

ApplicationOctetStream ==
    <<"a", "p", "p", "l", "i", "c", "a", "t", "i", "o", "n", "/",
      "o", "c", "t", "e", "t", "-", "s", "t", "r", "e", "a", "m">>

DotPdf == <<".", "p", "d", "f">>

\* 0x25 0x50 0x44 0x46 0x2d
pdfMagicBytes == <<"%", "P", "D", "F", "-">>

\* `upload-${Date.now()}.pdf`
DefaultFilename(t) ==
    <<"u", "p", "l", "o", "a", "d", "-">> \o DateNowStr(t) \o DotPdf

\* header values of the sampled requests
FileA == <<"a", ".", "p", "d", "f">>
FileB == <<" ", "b", " ", "c", ".", "P", "D", "F", " ">>
FileTxt == <<"a", ".", "t", "x", "t">>
TypePdfPadded == <<" ">> \o ApplicationPdf \o <<" ">>
TypePdfUpper ==
    <<"A", "p", "p", "l", "i", "c", "a", "t", "i", "o", "n", "/", "P", "D", "F">>

\* document texts of the sampled requests
TextLetter1 ==
    <<"N", "H", "S", " ", "N", "o", ":", " ", "1", " ", "2", "\n",
      "D", "e", "a", "r", " ", "A", " ", "1", "/", "2", "/", "2", "0", "2", "4">>
TextLetter2 == <<"H", "i", " ", "2", "0", "2", "4", "-", "0", "1", "-", "2", "9">>
TextNoNumber == <<"D", "e", "a", "r", " ", "B">>
TextBlankNumber == <<"N", "H", "S", " ", "N", "o", ":", " ", "H", "i">>

\* the bytes of a PDF whose text pdf-parse extracts as text
PdfOf(text) == pdfMagicBytes \o text

\* bytes with the signature that pdf-parse cannot parse
CorruptPdf == pdfMagicBytes \o <<"#">>

\* bytes without the signature
ShortBody == <<"%", "P", "D", "F">>
NotPdfBody == <<"<", "P", "D", "F", "-", "x">>

Request(method, contentType, filename, body) ==
    [httpMethod |-> method, contentType |-> contentType,
     filename |-> filename, body |-> body]

ValidRequests ==
    { Request("POST", ApplicationPdf, FileB, PdfOf(TextLetter1)),
      Request("POST", TypePdfPadded, Null, PdfOf(TextLetter2)) }

RejectedRequests ==
    { Request("GET", ApplicationPdf, FileA, PdfOf(TextLetter1)),
      Request("POST", ApplicationPdf, FileA, CorruptPdf),
      Request("POST", TypePdfUpper, FileA, PdfOf(TextLetter1)),
      Request("POST", Null, FileTxt, ShortBody),
      Request("POST", ApplicationPdf, FileTxt, NotPdfBody),
      Request("POST", ApplicationPdf, FileA, ShortBody),
      Request("POST", ApplicationPdf, FileB, NotPdfBody) }

Requests == ValidRequests \cup RejectedRequests

(***************************************************************************)
(* Collaborators of the handlers.                                          *)
(***************************************************************************)
\* pdf-parse: whether it throws on the bytes, and the text and page count
\* it returns when it does not
pdfThrows(body) == body = CorruptPdf

pdf(body) ==
    [text |-> SubSeq(body, Len(pdfMagicBytes) + 1, Len(body)), numpages |-> 1]

\* crypto SHA-256 digest: equal for equal bytes only
generateContentHash(buffer) == <<"sha256">> \o buffer

\* the key of an object as an S3 event carries it (URL-encoded)
RECURSIVE S3EventKey(_)
S3EventKey(key) ==
    IF key = <<>> THEN <<>>
    ELSE (CASE Head(key) = " " -> <<"+">>
            [] Head(key) = "+" -> <<"%", "2", "B">>
            [] Head(key) = "%" -> <<"%", "2", "5">>
            [] OTHER -> <<Head(key)>>) \o S3EventKey(Tail(key))

\* decodeURIComponent(key.replace(/\+/g, " "))
RECURSIVE decodeEventKey(_)
decodeEventKey(k) ==
    IF k = <<>> THEN <<>>
    ELSE IF Head(k) = "+" THEN <<" ">> \o decodeEventKey(Tail(k))
    ELSE IF HasAt(k, 1, <<"%", "2", "B">>)
         THEN <<"+">> \o decodeEventKey(SubSeq(k, 4, Len(k)))
    ELSE IF HasAt(k, 1, <<"%", "2", "5">>)
         THEN <<"%">> \o decodeEventKey(SubSeq(k, 4, Len(k)))
    ELSE <<Head(k)>> \o decodeEventKey(Tail(k))

\* contents the summarizer may return; the empty content becomes null
SummaryContents == {<<"s", "1">>, <<>>}

(***************************************************************************)
(* State.                                                                  *)
(***************************************************************************)
VARIABLES
    now,        \* the clock
    table,      \* the DynamoDB table: a set of items, one per (pk, uploaded_at)
    s3,         \* the bucket: object key -> bytes
    pending,    \* bag of S3 ObjectCreated events (event keys) awaiting delivery
    redelivered,\* number of events the environment has added so far
    upc,        \* upload u: "idle", "s3put", "ddbput", "done"
    ureq,       \* upload u: its request
    ufile,      \* upload u: filename
    udet,       \* upload u: nhsDetails
    uts,        \* upload u: uploadTimestamp
    uresp,      \* upload u: its response
    uwrites,    \* upload u: the store writes it has performed, in order
    xin,        \* extractor under test: the text it is called on
    xout,       \* extractor under test: what each call so far returned
    wpc,        \* worker w: "idle", "lookup", "summarize", "update", "threw"
    wbatch,     \* worker w: event.Records (event keys)
    widx,       \* worker w: position of the loop in event.Records
    wrec,       \* worker w: dbRecord
    wsummary,   \* worker w: summary
    werror      \* worker w: the call whose error failed the invocation, or "none"

uvars == <<upc, ureq, ufile, udet, uts, uresp, uwrites>>
wvars == <<wpc, wbatch, widx, wrec, wsummary, werror>>
xvars == <<xin, xout>>
vars == <<now, table, s3, pending, redelivered, uvars, wvars, xvars>>

NoRequest == [httpMethod |-> "none"]
NoResponse == [statusCode |-> 0]
NoRecord == [none |-> TRUE]
NoDetails == [nhsNumber |-> Null, letter_date |-> Null, body |-> Null]

\* the bucket and the table are empty and no invocation is running
HandlersInit ==
    /\ now = 0
    /\ table = {}
    /\ s3 = <<>>
    /\ pending = EmptyBag
    /\ redelivered = 0
    /\ upc = [u \in Uploads |-> "idle"]
    /\ ureq = [u \in Uploads |-> NoRequest]
    /\ ufile = [u \in Uploads |-> Null]
    /\ udet = [u \in Uploads |-> NoDetails]
    /\ uts = [u \in Uploads |-> Null]
    /\ uresp = [u \in Uploads |-> NoResponse]
    /\ uwrites = [u \in Uploads |-> <<>>]
    /\ wpc = [w \in Workers |-> "idle"]
    /\ wbatch = [w \in Workers |-> <<>>]
    /\ widx = [w \in Workers |-> 0]
    /\ wrec = [w \in Workers |-> NoRecord]
    /\ wsummary = [w \in Workers |-> Null]
    /\ werror = [w \in Workers |-> "none"]

Init ==
    /\ HandlersInit
    /\ xin = <<>>
    /\ xout = <<>>

(***************************************************************************)
(* The table and the bucket.                                               *)
(***************************************************************************)
SameKey(a, b) == a.pk = b.pk /\ a.uploaded_at = b.uploaded_at

\* PutCommand without a condition: creates the item or replaces the item
\* that has the same key
PutItem(t, item) == {x \in t : ~SameKey(x, item)} \cup {item}

\* UpdateItem that sets processed_at only when the item has none, as
\* if_not_exists(processed_at, :processed_at) does
UpdateItemKeepProcessedAt(t, key, attrs) ==
    LET old == {x \in t : SameKey(x, key)}
        base == IF old = {} THEN key ELSE CHOOSE x \in old : TRUE
        new == [a \in DOMAIN base \cup DOMAIN attrs |->
                   IF a = "processed_at" /\ a \in DOMAIN base THEN base[a]
                   ELSE IF a \in DOMAIN attrs THEN attrs[a] ELSE base[a]]
    IN  (t \ old) \cup {new}

\* UpdateItem that stores the key and the new attributes in place of the item
UpdateItemReplace(t, key, attrs) ==
    LET old == {x \in t : SameKey(x, key)}
        new == [a \in DOMAIN key \cup DOMAIN attrs |->
                   IF a \in DOMAIN attrs THEN attrs[a] ELSE key[a]]
    IN  (t \ old) \cup {new}

\* UpdateCommand SET: sets the attributes of the item with the key, which it
\* creates when there is none
UpdateItem(t, key, attrs) ==
    LET old == {x \in t : SameKey(x, key)}
        base == IF old = {} THEN key ELSE CHOOSE x \in old : TRUE
        new == [a \in DOMAIN base \cup DOMAIN attrs |->
                   IF a \in DOMAIN attrs THEN attrs[a] ELSE base[a]]
    IN  (t \ old) \cup {new}

\* the first item of a set in the order of the sort key uploaded_at
FirstByUploadedAt(items) ==
    CHOOSE x \in items :
        \A y \in items : y = x \/ StrLess(x.uploaded_at, y.uploaded_at)

\* PutObjectCommand
PutObject(bucket, key, body) ==
    [k \in DOMAIN bucket \cup {key} |-> IF k = key THEN body ELSE bucket[k]]

(***************************************************************************)
(* uploadFileHandler.                                                      *)
(***************************************************************************)
\* getHeader(event.headers, name) || fallback, trimmed
HeaderOr(value, fallback) == trim(IF Falsy(value) THEN fallback ELSE value)

\* Validate with the extension checked before the content type
ValidateExtensionFirst(contentType, filename, body) ==
    IF ~endsWith(toLowerCase(filename), DotPdf) THEN "Invalid file extension"
    ELSE IF contentType # ApplicationPdf THEN "Invalid file type"
    ELSE IF Len(body) < 5 \/ SubSeq(body, 1, 5) # pdfMagicBytes
         THEN "Invalid PDF file"
    ELSE "ok"

\* the three checks of the upload, in the handler's order: the error of the
\* first that fails, or "ok"
Validate(contentType, filename, body) ==
    IF contentType # ApplicationPdf THEN "Invalid file type"
    ELSE IF ~endsWith(toLowerCase(filename), DotPdf) THEN "Invalid file extension"
    ELSE IF Len(body) < 5 \/ SubSeq(body, 1, 5) # pdfMagicBytes
         THEN "Invalid PDF file"
    ELSE "ok"

\* nhsDetails as the extraction returns them, spaces kept
NormalizedDetailsKeepSpaces(text) == extractNhsDetails(text)

\* nhsDetails after "Remove spaces from NHS number"
NormalizedDetails(text) ==
    LET d == extractNhsDetails(text)
    IN  [d EXCEPT !.nhsNumber = IF Falsy(@) THEN @ ELSE RemoveSpaces(@)]

\* the same for the bytes of each sampled request that pdf-parse can parse
DetailsTable ==
    [body \in {r.body : r \in ValidRequests}
               \cup {PdfOf(TextNoNumber), PdfOf(TextBlankNumber)}
        |-> NormalizedDetails(pdf(body).text)]

\* the timestamps of the instants of the clock
IsoTable == [t \in 0..MaxClock |-> toISOString(t)]

\* checkForDuplicate that, without an NHS number, looks for the content hash
\* under any pk
checkForDuplicateByHash(nhsNumber, contentHash, queryOk) ==
    LET items == {x \in table : /\ Falsy(nhsNumber) \/ x.pk = nhsNumber
                                /\ x.content_hash = contentHash}
    IN  IF ~queryOk \/ items = {} THEN NoRecord
        ELSE FirstByUploadedAt(items)

\* checkForDuplicate: the first item the query returns, or NoRecord; a query
\* that throws is caught and gives NoRecord as well
checkForDuplicate(nhsNumber, contentHash, queryOk) ==
    LET items == {x \in table : x.pk = nhsNumber /\ x.content_hash = contentHash}
    IN  IF Falsy(nhsNumber) \/ ~queryOk \/ items = {} THEN NoRecord
        ELSE FirstByUploadedAt(items)

\* DbItem that already carries the attributes of a processed record
DbItemProcessed(u, t) ==
    LET body == ureq[u].body
        d == udet[u]
    IN  [pk |-> IF Falsy(d.nhsNumber)
                THEN <<"U", "N", "K", "N", "O", "W", "N", "-">> \o DateNowStr(t)
                ELSE d.nhsNumber,
         uploaded_at |-> uts[u],
         file_name |-> ufile[u],
         letter_date |-> d.letter_date,
         letter_body |-> d.body,
         s3_key |-> ufile[u],
         file_size |-> Len(body),
         num_pages |-> pdf(body).numpages,
         date_partition |-> getDatePartition(uts[u]),
         letter_date_partition |-> getDatePartition(d.letter_date),
         content_hash |-> generateContentHash(body),
         status |-> "processed",
         summary |-> Null,
         processed_at |-> uts[u]]

\* dbItem
DbItem(u, t) ==
    LET body == ureq[u].body
        d == udet[u]
    IN  [pk |-> IF Falsy(d.nhsNumber)
                THEN <<"U", "N", "K", "N", "O", "W", "N", "-">> \o DateNowStr(t)
                ELSE d.nhsNumber,
         uploaded_at |-> uts[u],
         file_name |-> ufile[u],
         letter_date |-> d.letter_date,
         letter_body |-> d.body,
         s3_key |-> ufile[u],
         file_size |-> Len(body),
         num_pages |-> pdf(body).numpages,
         date_partition |-> getDatePartition(uts[u]),
         letter_date_partition |-> getDatePartition(d.letter_date),
         content_hash |-> generateContentHash(body),
         status |-> "pending"]

ErrorResponse(code, error) == [statusCode |-> code, error |-> error]

\* the catch block of the handler
FailedResponse(message) ==
    [statusCode |-> 500, error |-> "Failed to upload file", message |-> message]

DuplicateResponse(existingLetter) ==
    [statusCode |-> 409, error |-> "Duplicate letter",
     existing_file |-> existingLetter.file_name,
     uploaded_at |-> existingLetter.uploaded_at]

SuccessResponse(u) ==
    LET d == udet[u]
    IN  [statusCode |-> 200, key |-> ufile[u], size |-> Len(ureq[u].body),
         nhs_number |-> d.nhsNumber, letter_date |-> d.letter_date,
         letter_body |-> d.body]

\* the handler returns
Return(u, response) ==
    /\ upc' = [upc EXCEPT ![u] = "done"]
    /\ uresp' = [uresp EXCEPT ![u] = response]

\* UploadStart of a handler that stores the blob before it looks for a
\* duplicate
UploadStartPutFirst(u) ==
    /\ upc[u] = "idle"
    /\ \A v \in Uploads : v < u => upc[v] # "idle"
    /\ \E r \in Requests :
        LET filename == HeaderOr(r.filename, DefaultFilename(now))
            contentType == HeaderOr(r.contentType, ApplicationOctetStream)
            check == Validate(contentType, filename, r.body)
        IN  /\ ureq' = [ureq EXCEPT ![u] = r]
            /\ ufile' = [ufile EXCEPT ![u] = filename]
            /\ IF r.httpMethod # "POST"
               THEN Return(u, ErrorResponse(405, "Method not allowed"))
                    /\ UNCHANGED <<udet, uts, s3, pending, uwrites>>
               ELSE IF check # "ok"
               THEN Return(u, ErrorResponse(400, check))
                    /\ UNCHANGED <<udet, uts, s3, pending, uwrites>>
               ELSE IF pdfThrows(r.body)
               THEN Return(u, FailedResponse("pdf-parse"))
                    /\ UNCHANGED <<udet, uts, s3, pending, uwrites>>
               ELSE /\ udet' = [udet EXCEPT ![u] = DetailsTable[r.body]]
                    /\ \E queryOk \in BOOLEAN :
                        LET existingLetter ==
                                checkForDuplicate(udet'[u].nhsNumber,
                                                  generateContentHash(r.body), queryOk)
                        IN  IF existingLetter # NoRecord
                            THEN /\ Return(u, DuplicateResponse(existingLetter))
                                 /\ s3' = PutObject(s3, ufile'[u], r.body)
                                 /\ pending' = pending (+) SetToBag({S3EventKey(ufile'[u])})
                                 /\ uwrites' =
                                       [uwrites EXCEPT
                                           ![u] = Append(@, [op |-> "blob", key |-> ufile'[u]])]
                                 /\ UNCHANGED uts
                            ELSE /\ upc' = [upc EXCEPT ![u] = "s3put"]
                                 /\ uts' = [uts EXCEPT ![u] = IsoTable[now]]
                                 /\ UNCHANGED <<uresp, s3, pending, uwrites>>
    /\ UNCHANGED <<xvars, now, table, redelivered, wvars>>

\* From the request to the upload timestamp: method, headers, the three
\* checks, pdf-parse, extraction and checkForDuplicate.  The query of
\* checkForDuplicate is the only read of a store and the handler has written
\* nothing yet, so this is one step.  The query answers or throws (which
\* checkForDuplicate catches); a duplicate ends the request with 409.
UploadStart(u) ==
    /\ upc[u] = "idle"
    /\ \A v \in Uploads : v < u => upc[v] # "idle"
    /\ \E r \in Requests :
        LET filename == HeaderOr(r.filename, DefaultFilename(now))
            contentType == HeaderOr(r.contentType, ApplicationOctetStream)
            check == Validate(contentType, filename, r.body)
        IN  /\ ureq' = [ureq EXCEPT ![u] = r]
            /\ ufile' = [ufile EXCEPT ![u] = filename]
            /\ IF r.httpMethod # "POST"
               THEN Return(u, ErrorResponse(405, "Method not allowed"))
                    /\ UNCHANGED <<udet, uts>>
               ELSE IF check # "ok"
               THEN Return(u, ErrorResponse(400, check)) /\ UNCHANGED <<udet, uts>>
               ELSE IF pdfThrows(r.body)
               THEN Return(u, FailedResponse("pdf-parse")) /\ UNCHANGED <<udet, uts>>
               ELSE /\ udet' = [udet EXCEPT ![u] = DetailsTable[r.body]]
                    /\ \E queryOk \in BOOLEAN :
                        LET existingLetter ==
                                checkForDuplicate(udet'[u].nhsNumber,
                                                  generateContentHash(r.body), queryOk)
                        IN  IF existingLetter # NoRecord
                            THEN Return(u, DuplicateResponse(existingLetter))
                                 /\ UNCHANGED uts
                            ELSE /\ upc' = [upc EXCEPT ![u] = "s3put"]
                                 /\ uts' = [uts EXCEPT ![u] = IsoTable[now]]
                                 /\ UNCHANGED uresp
    /\ UNCHANGED <<xvars, now, table, s3, pending, redelivered, uwrites, wvars>>

\* UploadS3Put of a handler that goes on to the record without storing the
\* blob
UploadS3PutSkipped(u) ==
    /\ upc[u] = "s3put"
    /\ upc' = [upc EXCEPT ![u] = "ddbput"]
    /\ UNCHANGED <<xvars, now, table, s3, pending, redelivered, ureq, ufile, udet, uts,
                   uresp, uwrites, wvars>>

\* s3Client.send(PutObjectCommand): the object is stored and S3 emits its
\* ObjectCreated event, or the call throws
UploadS3Put(u) ==
    /\ upc[u] = "s3put"
    /\ \/ /\ s3' = PutObject(s3, ufile[u], ureq[u].body)
          /\ pending' = pending (+) SetToBag({S3EventKey(ufile[u])})
          /\ uwrites' = [uwrites EXCEPT ![u] = Append(@, [op |-> "blob", key |-> ufile[u]])]
          /\ upc' = [upc EXCEPT ![u] = "ddbput"]
          /\ UNCHANGED uresp
       \/ /\ Return(u, FailedResponse("s3"))
          /\ UNCHANGED <<s3, pending, uwrites>>
    /\ UNCHANGED <<xvars, now, table, redelivered, ureq, ufile, udet, uts, wvars>>

\* UploadDdbPut whose write is conditional on the table holding no record
\* with the item's pk and content_hash
UploadDdbPutIfAbsent(u) ==
    /\ upc[u] = "ddbput"
    /\ \/ LET dbItem == DbItem(u, now)
          IN  /\ \A x \in table :
                    ~(x.pk = dbItem.pk /\ x.content_hash = dbItem.content_hash)
              /\ table' = PutItem(table, dbItem)
              /\ uwrites' = [uwrites EXCEPT
                                ![u] = Append(@, [op |-> "record", item |-> dbItem])]
              /\ Return(u, SuccessResponse(u))
       \/ /\ Return(u, FailedResponse("dynamodb"))
          /\ UNCHANGED <<table, uwrites>>
    /\ UNCHANGED <<xvars, now, s3, pending, redelivered, ureq, ufile, udet, uts, wvars>>

\* UploadDdbPut whose failed call has stored the item all the same
UploadDdbPutStoredOnError(u) ==
    /\ upc[u] = "ddbput"
    /\ \/ LET dbItem == DbItem(u, now)
          IN  /\ table' = PutItem(table, dbItem)
              /\ uwrites' = [uwrites EXCEPT
                                ![u] = Append(@, [op |-> "record", item |-> dbItem])]
              /\ Return(u, SuccessResponse(u))
       \/ /\ Return(u, FailedResponse("dynamodb"))
          /\ table' = PutItem(table, DbItem(u, now))
          /\ UNCHANGED uwrites
    /\ UNCHANGED <<xvars, now, s3, pending, redelivered, ureq, ufile, udet, uts, wvars>>

\* ddbDocClient.send(PutCommand) with the item built after the blob write
UploadDdbPut(u) ==
    /\ upc[u] = "ddbput"
    /\ \/ LET dbItem == DbItem(u, now)
          IN  /\ table' = PutItem(table, dbItem)
              /\ uwrites' = [uwrites EXCEPT
                                ![u] = Append(@, [op |-> "record", item |-> dbItem])]
              /\ Return(u, SuccessResponse(u))
       \/ /\ Return(u, FailedResponse("dynamodb"))
          /\ UNCHANGED <<table, uwrites>>
    /\ UNCHANGED <<xvars, now, s3, pending, redelivered, ureq, ufile, udet, uts, wvars>>

(***************************************************************************)
(* processFileHandler.                                                     *)
(***************************************************************************)
\* `${now.getFullYear()}-${String(now.getMonth() + 1).padStart(2, "0")}`
currentPartition(t) ==
    DecStr(getFullYear(t)) \o <<"-">> \o padStart0(DecStr(getMonth(t) + 1), 2)

\* findRecordByS3Key that looks for the key in every partition of the index
findRecordInAnyPartition(s3Key, t) ==
    {x \in table : x.s3_key = s3Key}

\* findRecordByS3Key: the items the query on the index ByUploadDate returns.
\* The handler takes Items[0]; the index gives the items of a partition no
\* order the handler can rely on, so any of them may be the first.
findRecordByS3Key(s3Key, t) ==
    {x \in table : x.date_partition = currentPartition(t) /\ x.s3_key = s3Key}

\* updateRecordWithSummary: the attributes the UpdateCommand sets
SummaryAttributes(summary, t) ==
    [status |-> "processed", summary |-> summary, processed_at |-> IsoTable[t]]

\* the key of the record being handled by worker w
CurrentKey(w) == decodeEventKey(wbatch[w][widx[w]])

\* `continue`, or the end of the loop: the next record of the event, or the
\* handler returns its 200 and the invocation is over, its events done with.
\* dbRecord and summary are scoped to one pass of the loop.
NextRecord(w) ==
    /\ IF widx[w] < Len(wbatch[w])
       THEN /\ widx' = [widx EXCEPT ![w] = @ + 1]
            /\ wpc' = [wpc EXCEPT ![w] = "lookup"]
            /\ UNCHANGED wbatch
       ELSE /\ widx' = [widx EXCEPT ![w] = 0]
            /\ wpc' = [wpc EXCEPT ![w] = "idle"]
            /\ wbatch' = [wbatch EXCEPT ![w] = <<>>]
    /\ wrec' = [wrec EXCEPT ![w] = NoRecord]
    /\ wsummary' = [wsummary EXCEPT ![w] = Null]
    /\ UNCHANGED werror

\* Throw of a handler whose catch block logs the error and goes on with the
\* next record
ThrowSwallowed(w, error) ==
    /\ werror' = [werror EXCEPT ![w] = error]
    /\ IF widx[w] < Len(wbatch[w])
       THEN /\ widx' = [widx EXCEPT ![w] = @ + 1]
            /\ wpc' = [wpc EXCEPT ![w] = "lookup"]
            /\ UNCHANGED wbatch
       ELSE /\ wpc' = [wpc EXCEPT ![w] = "threw"]
            /\ UNCHANGED <<widx, wbatch>>
    /\ wrec' = [wrec EXCEPT ![w] = NoRecord]
    /\ wsummary' = [wsummary EXCEPT ![w] = Null]

\* the catch block rethrows the error of the call that failed: the
\* invocation fails
Throw(w, error) ==
    /\ wpc' = [wpc EXCEPT ![w] = "threw"]
    /\ werror' = [werror EXCEPT ![w] = error]
    /\ wrec' = [wrec EXCEPT ![w] = NoRecord]
    /\ wsummary' = [wsummary EXCEPT ![w] = Null]
    /\ UNCHANGED <<widx, wbatch>>

\* the batches the event source may hand to one invocation
Batches ==
    LET keys == BagToSet(pending)
    IN  {b \in UNION {[1..n -> keys] : n \in 1..MaxBatch} :
            \A k \in keys : Cardinality({i \in DOMAIN b : b[i] = k}) <= pending[k]}

BagOfSeq(b) ==
    LET keys == {b[i] : i \in DOMAIN b}
    IN  [k \in keys |-> Cardinality({i \in DOMAIN b : b[i] = k})]

\* Lambda invokes the handler with a batch of pending events
WorkerStart(w) ==
    /\ wpc[w] = "idle"
    /\ \A v \in Workers : v < w => wpc[v] # "idle"
    /\ \E b \in Batches :
        /\ wbatch' = [wbatch EXCEPT ![w] = b]
        /\ pending' = pending (-) BagOfSeq(b)
    /\ widx' = [widx EXCEPT ![w] = 1]
    /\ wpc' = [wpc EXCEPT ![w] = "lookup"]
    /\ UNCHANGED <<xvars, now, table, s3, redelivered, uvars, wrec, wsummary, werror>>

\* WorkerLookup of a handler that summarizes whatever record it finds
WorkerLookupAlwaysSummarize(w) ==
    /\ wpc[w] = "lookup"
    /\ IF ~endsWith(toLowerCase(CurrentKey(w)), DotPdf)
       THEN NextRecord(w)
       ELSE \/ Throw(w, "query")
            \/ /\ findRecordByS3Key(CurrentKey(w), now) = {}
               /\ NextRecord(w)
            \/ \E dbRecord \in findRecordByS3Key(CurrentKey(w), now) :
                /\ wrec' = [wrec EXCEPT ![w] = dbRecord]
                /\ wsummary' = [wsummary EXCEPT ![w] = Null]
                /\ wpc' = [wpc EXCEPT ![w] = "summarize"]
                /\ UNCHANGED <<widx, wbatch, werror>>
    /\ UNCHANGED <<xvars, now, table, s3, pending, redelivered, uvars>>

\* WorkerLookup of a handler that looks every key up, PDF or not
WorkerLookupNoPdfCheck(w) ==
    /\ wpc[w] = "lookup"
    /\ \/ Throw(w, "query")
       \/ /\ findRecordByS3Key(CurrentKey(w), now) = {}
          /\ NextRecord(w)
       \/ \E dbRecord \in findRecordByS3Key(CurrentKey(w), now) :
           /\ wrec' = [wrec EXCEPT ![w] = dbRecord]
           /\ wsummary' = [wsummary EXCEPT ![w] = Null]
           /\ wpc' = [wpc EXCEPT
                         ![w] = IF Falsy(dbRecord.letter_body)
                                THEN "update" ELSE "summarize"]
           /\ UNCHANGED <<widx, wbatch, werror>>
    /\ UNCHANGED <<xvars, now, table, s3, pending, redelivered, uvars>>

\* One record of the event up to the answer of the lookup: a key that is no
\* PDF is skipped; the query throws, finds nothing (skip), finds a record
\* without a letter body (update with a null summary) or one with a body.
WorkerLookup(w) ==
    /\ wpc[w] = "lookup"
    /\ IF ~endsWith(toLowerCase(CurrentKey(w)), DotPdf)
       THEN NextRecord(w)
       ELSE \/ Throw(w, "query")
            \/ /\ findRecordByS3Key(CurrentKey(w), now) = {}
               /\ NextRecord(w)
            \/ \E dbRecord \in findRecordByS3Key(CurrentKey(w), now) :
                /\ wrec' = [wrec EXCEPT ![w] = dbRecord]
                /\ wsummary' = [wsummary EXCEPT ![w] = Null]
                /\ wpc' = [wpc EXCEPT
                              ![w] = IF Falsy(dbRecord.letter_body)
                                     THEN "update" ELSE "summarize"]
                /\ UNCHANGED <<widx, wbatch, werror>>
    /\ UNCHANGED <<xvars, now, table, s3, pending, redelivered, uvars>>

\* WorkerSummarize of a handler that catches the error of the summarizer and
\* goes on to the update with a null summary
WorkerSummarizeSwallowed(w) ==
    /\ wpc[w] = "summarize"
    /\ \/ \E content \in SummaryContents :
            /\ wsummary' = [wsummary EXCEPT
                               ![w] = IF Falsy(content) THEN Null ELSE content]
            /\ UNCHANGED werror
       \/ /\ wsummary' = [wsummary EXCEPT ![w] = Null]
          /\ werror' = [werror EXCEPT ![w] = "summarizer"]
    /\ wpc' = [wpc EXCEPT ![w] = "update"]
    /\ UNCHANGED <<xvars, now, table, s3, pending, redelivered, uvars, widx, wbatch, wrec>>

\* summarizeLetterBody: the completion returns a content, or the call throws
WorkerSummarize(w) ==
    /\ wpc[w] = "summarize"
    /\ \/ \E content \in SummaryContents :
            /\ wsummary' = [wsummary EXCEPT
                               ![w] = IF Falsy(content) THEN Null ELSE content]
            /\ wpc' = [wpc EXCEPT ![w] = "update"]
            /\ UNCHANGED <<widx, wbatch, wrec, werror>>
       \/ Throw(w, "summarizer")
    /\ UNCHANGED <<xvars, now, table, s3, pending, redelivered, uvars>>

\* updateRecordWithSummary(dbRecord.pk, dbRecord.uploaded_at, summary)
WorkerUpdate(w) ==
    /\ wpc[w] = "update"
    /\ \/ /\ table' = UpdateItem(table,
                                 [pk |-> wrec[w].pk, uploaded_at |-> wrec[w].uploaded_at],
                                 SummaryAttributes(wsummary[w], now))
          /\ NextRecord(w)
       \/ Throw(w, "update") /\ UNCHANGED table
    /\ UNCHANGED <<xvars, now, s3, pending, redelivered, uvars>>

\* The event source delivers the events of a failed invocation again
WorkerRetry(w) ==
    /\ wpc[w] = "threw"
    /\ pending' = pending (+) BagOfSeq(wbatch[w])
    /\ wpc' = [wpc EXCEPT ![w] = "idle"]
    /\ wbatch' = [wbatch EXCEPT ![w] = <<>>]
    /\ widx' = [widx EXCEPT ![w] = 0]
    /\ werror' = [werror EXCEPT ![w] = "none"]
    /\ UNCHANGED <<xvars, now, table, s3, redelivered, uvars, wrec, wsummary>>

(***************************************************************************)
(* The environment.                                                        *)
(***************************************************************************)
\* S3 delivers the event of a stored object once more (at-least-once)
Redeliver ==
    /\ redelivered < MaxRedeliver
    /\ \E key \in DOMAIN s3 : pending' = pending (+) SetToBag({S3EventKey(key)})
    /\ redelivered' = redelivered + 1
    /\ UNCHANGED <<xvars, now, table, s3, uvars, wvars>>

\* An object that is no PDF is created in the bucket by another writer; S3
\* emits its ObjectCreated event like any other
OtherObjectCreated ==
    /\ redelivered < MaxRedeliver
    /\ s3' = PutObject(s3, FileTxt, NotPdfBody)
    /\ pending' = pending (+) SetToBag({S3EventKey(FileTxt)})
    /\ redelivered' = redelivered + 1
    /\ UNCHANGED <<xvars, now, table, uvars, wvars>>

Tick ==
    /\ now < MaxClock
    /\ now' = now + 1
    /\ UNCHANGED <<xvars, table, s3, pending, redelivered, uvars, wvars>>

Next ==
    \/ \E u \in Uploads : UploadStart(u)
    \/ \E u \in Uploads : UploadS3Put(u)
    \/ \E u \in Uploads : UploadDdbPut(u)
    \/ \E w \in Workers : WorkerStart(w)
    \/ \E w \in Workers : WorkerLookup(w)
    \/ \E w \in Workers : WorkerSummarize(w)
    \/ \E w \in Workers : WorkerUpdate(w)
    \/ \E w \in Workers : WorkerRetry(w)
    \/ Redeliver
    \/ OtherObjectCreated
    \/ Tick

Spec == Init /\ [][Next]_vars

(***************************************************************************)
(* The extractor on its own.  extractNhsDetails is a pure function of its  *)
(* argument; ExtractSpec calls it up to MaxCalls times on one text drawn   *)
(* from ExtractorInputs while the clock advances and the bucket changes    *)
(* between the calls.                                                      *)
(***************************************************************************)
MaxCalls == 2

\* pieces of letter text: one date in each format the extractor knows, and
\* one piece without a date; date is the piece's date written YYYY-MM-DD
FragLong ==
    [kind |-> "long",
     text |-> <<"3", "r", "d", " ", "M", "a", "r", "c", "h", " ", "2", "0", "2", "3">>,
     date |-> <<"2", "0", "2", "3", "-", "0", "3", "-", "0", "3">>]
FragLongUpper ==
    [kind |-> "long",
     text |-> <<"1", "2", " ", "M", "A", "Y", " ", "2", "0", "2", "1">>,
     date |-> <<"2", "0", "2", "1", "-", "0", "5", "-", "1", "2">>]
FragShort ==
    [kind |-> "short",
     text |-> <<"1", "/", "2", "/", "2", "0", "2", "4">>,
     date |-> <<"2", "0", "2", "4", "-", "0", "2", "-", "0", "1">>]
FragShortDash ==
    [kind |-> "short",
     text |-> <<"1", "1", "-", "1", "2", "-", "2", "0", "2", "4">>,
     date |-> <<"2", "0", "2", "4", "-", "1", "2", "-", "1", "1">>]
FragIso ==
    [kind |-> "iso",
     text |-> <<"2", "0", "2", "4", "-", "0", "1", "-", "2", "9">>,
     date |-> <<"2", "0", "2", "4", "-", "0", "1", "-", "2", "9">>]
FragNone ==
    [kind |-> "none",
     text |-> <<"R", "e", "f", " ", "7">>,
     date |-> Null]

DateFragments ==
    {FragLong, FragLongUpper, FragShort, FragShortDash, FragIso, FragNone}

\* texts are made of at most two pieces, in either order
FragmentSeqs ==
    {<<>>} \cup {<<f>> : f \in DateFragments}
           \cup {<<f, g>> : f \in DateFragments, g \in DateFragments}

Join(fs) ==
    IF fs = <<>> THEN <<>>
    ELSE IF Len(fs) = 1 THEN fs[1].text
    ELSE fs[1].text \o <<" ">> \o fs[2].text

\* the texts the extractor is called on: the empty text, the pieces and their
\* pairs, the letters of the requests, and the missing text
ExtractorInputs ==
    {Join(fs) : fs \in FragmentSeqs}
        \cup {TextLetter1, TextLetter2, TextNoNumber, TextBlankNumber, Null}

ExtractInit ==
    /\ HandlersInit
    /\ xin \in ExtractorInputs
    /\ xout = <<>>

\* the entry of a call in xout: what it returned (or threw), with the instant
\* of the call and the object keys in the bucket at that instant
Called(value) == [at |-> now, stored |-> DOMAIN s3, value |-> value]

\* a call whose NHS-number pattern keeps its position between calls, as a
\* pattern with the g flag does: the call after a match finds nothing
ExtractCallStickyPattern ==
    /\ Len(xout) < MaxCalls
    /\ LET r == extractNhsDetails(xin)
           sticky == /\ xout # <<>>
                     /\ xout[Len(xout)].value # TypeError
                     /\ xout[Len(xout)].value.nhsNumber # Null
       IN  xout' = Append(xout, Called(IF r # TypeError /\ sticky
                                       THEN [r EXCEPT !.nhsNumber = Null]
                                       ELSE r))
    /\ UNCHANGED <<xin, now, table, s3, pending, redelivered, uvars, wvars>>

\* one call extractNhsDetails(text)
ExtractCall ==
    /\ Len(xout) < MaxCalls
    /\ xout' = Append(xout, Called(extractNhsDetails(xin)))
    /\ UNCHANGED <<xin, now, table, s3, pending, redelivered, uvars, wvars>>

ExtractNext ==
    \/ ExtractCall
    \/ OtherObjectCreated
    \/ Tick

ExtractSpec == ExtractInit /\ [][ExtractNext]_vars

(***************************************************************************)
(* Properties.                                                             *)
(***************************************************************************)
SummaryOf(r) == IF "summary" \in DOMAIN r THEN r.summary ELSE Null

ProcessedAtOf(r) == IF "processed_at" \in DOMAIN r THEN r.processed_at ELSE Null

\* the failed invocation of worker w is over
WorkerStepsFailed(w) == wpc[w] = "threw" /\ wpc'[w] # "threw"

\* worker w takes a step of its handler
WorkerSteps(w) == wpc[w] \in {"lookup", "summarize", "update"} /\ wpc'[w] # wpc[w]

\* C1: an invocation whose lookup returned a record that is already
\* processed does not throw out of the summarizer, and that record's summary
\* and processed_at are after each of its steps what they were before.
C1_IdempotentEnrichment ==
    [][\A w \in Workers :
          (WorkerSteps(w) /\ wpc[w] # "lookup" /\ wrec[w].status = "processed")
          => /\ ~(wpc[w] = "summarize" /\ wpc'[w] = "threw")
             /\ \A r \in table :
                   SameKey(r, wrec[w])
                   => \E q \in table' :
                         /\ SameKey(q, r)
                         /\ SummaryOf(q) = SummaryOf(r)
                         /\ ProcessedAtOf(q) = ProcessedAtOf(r)]_vars

\* C2: the summarizer is never called for a record that is already
\* processed: no invocation reaches the call of summarizeLetterBody with a
\* processed record.
C2_NoReEnrichment ==
    \A w \in Workers : wpc[w] = "summarize" => wrec[w].status # "processed"

\* C3: a processed record stays processed in every step, and a record
\* becomes processed only in a step of a worker's update.
C3_StatusOnlyForward ==
    [][/\ \A r \in table :
             r.status = "processed"
             => \E q \in table' : SameKey(q, r) /\ q.status = "processed"
       /\ \A q \in table' :
             (q.status = "processed" /\ q \notin table)
             => \E w \in Workers : wpc[w] = "update" /\ WorkerSteps(w)]_vars

\* C4: when an upload has returned success for bytes B with identifier I, an
\* upload of the same bytes received afterwards (one that passes validation)
\* returns 409 with the file name and upload timestamp of an existing record
\* of I and B, and writes neither a blob nor a record.
C4_DuplicateRejected ==
    [][\A u \in Uploads :
          (/\ upc[u] = "idle"
           /\ upc'[u] # "idle"
           /\ ureq'[u] \in ValidRequests
           /\ \E v \in Uploads \ {u} :
                 /\ upc[v] = "done"
                 /\ uresp[v].statusCode = 200
                 /\ ~Falsy(udet[v].nhsNumber)
                 /\ ureq[v].body = ureq'[u].body)
          => /\ upc'[u] = "done"
             /\ uresp'[u].statusCode = 409
             /\ \E r \in table :
                   /\ r.pk = udet'[u].nhsNumber
                   /\ r.content_hash = generateContentHash(ureq'[u].body)
                   /\ uresp'[u].existing_file = r.file_name
                   /\ uresp'[u].uploaded_at = r.uploaded_at
             /\ table' = table
             /\ s3' = s3
             /\ uwrites'[u] = <<>>]_vars

\* the NHS numbers the extraction has found in the uploads
ExtractedIdentifiers ==
    {udet[u].nhsNumber : u \in {v \in Uploads : udet[v] # NoDetails}} \ {Null, <<>>}

\* C5: no two distinct records have the same extracted identifier and the
\* same content hash.
C5_NoDuplicateRecords ==
    \A r, q \in table :
        (r.pk \in ExtractedIdentifiers /\ r.pk = q.pk /\ r.content_hash = q.content_hash)
        => r = q

\* the responses of an upload rejected by validation, by the failure of the
\* text extraction or by the duplicate check
IsRejection(response) ==
    \/ response.statusCode \in {400, 409}
    \/ response.statusCode = 500 /\ response.message = "pdf-parse"

\* C6: the step in which an upload is rejected by validation, by the failure
\* of the text extraction or by the duplicate check leaves the bucket, its
\* events and the table as they were, and the upload has written nothing
\* before it.
C6_RejectionWritesNothing ==
    [][\A u \in Uploads :
          (upc[u] # "done" /\ upc'[u] = "done" /\ IsRejection(uresp'[u]))
          => /\ s3' = s3
             /\ table' = table
             /\ pending' = pending
             /\ uwrites[u] = <<>>
             /\ uwrites'[u] = <<>>]_vars

C6_Witness ==
    \E u \in Uploads :
        /\ upc[u] = "done"
        /\ uresp[u].statusCode = 409
        /\ table # {}
        /\ uwrites[u] = <<>>

\* the declared content type and file name of a request as the handler reads
\* them, and its three checks taken one by one
DeclaredType(r) == HeaderOr(r.contentType, ApplicationOctetStream)

TypeOk(r) == DeclaredType(r) = ApplicationPdf

ExtensionOk(u) == endsWith(toLowerCase(ufile[u]), DotPdf)

MagicOk(r) == Len(r.body) >= 5 /\ SubSeq(r.body, 1, 5) = pdfMagicBytes

Is400(response, error) == response.statusCode = 400 /\ response.error = error

\* C7: the 400 of an upload names the first check that fails, in the order
\* content type (trimmed, case-sensitive), extension (case-insensitive),
\* signature (at least 5 bytes), and an upload goes past validation only
\* when the three hold.
C7_ValidatorOrder ==
    \A u \in Uploads :
        (upc[u] # "idle" /\ ureq[u].httpMethod = "POST")
        => LET r == ureq[u]
           IN  /\ ~TypeOk(r) => Is400(uresp[u], "Invalid file type")
               /\ (TypeOk(r) /\ ~ExtensionOk(u))
                  => Is400(uresp[u], "Invalid file extension")
               /\ (TypeOk(r) /\ ExtensionOk(u) /\ ~MagicOk(r))
                  => Is400(uresp[u], "Invalid PDF file")
               /\ (TypeOk(r) /\ ExtensionOk(u) /\ MagicOk(r))
                  => uresp[u].statusCode # 400
               /\ r.contentType = TypePdfUpper => Is400(uresp[u], "Invalid file type")
               /\ r.contentType = TypePdfPadded => ~Is400(uresp[u], "Invalid file type")
               /\ (r.filename = FileB /\ uresp[u].statusCode = 400)
                  => uresp[u].error # "Invalid file extension"
               /\ (r.body \in {ShortBody, NotPdfBody}) => uresp[u].statusCode = 400

C7_Witness ==
    \E u \in Uploads :
        /\ upc[u] = "done"
        /\ ureq[u].contentType = ApplicationPdf
        /\ ureq[u].filename = FileB
        /\ ureq[u].body = NotPdfBody
        /\ Is400(uresp[u], "Invalid PDF file")

\* C8: an upload writes the blob first and the record second and nothing
\* else; the record it writes is pending, without summary and processed_at;
\* it returns 200 only with both written, the blob then in the bucket and a
\* record of that key in the table.
C8_BlobThenPendingRecord ==
    \A u \in Uploads :
        /\ Len(uwrites[u]) <= 2
        /\ Len(uwrites[u]) >= 1 => uwrites[u][1].op = "blob"
        /\ Len(uwrites[u]) = 2
           => /\ uwrites[u][2].op = "record"
              /\ uwrites[u][2].item.status = "pending"
              /\ "summary" \notin DOMAIN uwrites[u][2].item
              /\ "processed_at" \notin DOMAIN uwrites[u][2].item
        /\ uresp[u].statusCode = 200
           => /\ upc[u] = "done"
              /\ Len(uwrites[u]) = 2
              /\ ufile[u] \in DOMAIN s3
              /\ \E r \in table : SameKey(r, uwrites[u][2].item)

C8_Witness ==
    \E u \in Uploads :
        /\ uresp[u].statusCode = 200
        /\ \E r \in table : r = uwrites[u][2].item

\* C9 as stated: whenever a worker is about to look a blob key up, a record
\* of that blob key is in the table.
C9_RecordPresentAtLookup ==
    \A w \in Workers :
        wpc[w] = "lookup" => \E r \in table : r.s3_key = CurrentKey(w)

\* C9 amended: a record is in the table only after its blob is in the bucket
\* (an upload wrote the blob, then the record); so the lookup for a blob's
\* event may find no record, and a record the lookup returns is one of the
\* blob key looked up, whose blob is stored.
C9_RecordOnlyAfterBlob ==
    /\ \A r \in table :
          /\ r.s3_key \in DOMAIN s3
          /\ \E u \in Uploads :
                /\ Len(uwrites[u]) = 2
                /\ uwrites[u][1] = [op |-> "blob", key |-> r.s3_key]
                /\ SameKey(uwrites[u][2].item, r)
    /\ \A w \in Workers :
          wpc[w] \in {"summarize", "update"}
          => /\ wrec[w].s3_key = CurrentKey(w)
             /\ wrec[w].s3_key \in DOMAIN s3

C9_Witness ==
    \E w \in Workers :
        /\ wpc[w] = "summarize"
        /\ wrec[w].status = "pending"
        /\ wrec[w] \in table

\* no event awaits delivery, no invocation and no upload is under way
Quiescent ==
    /\ pending = EmptyBag
    /\ \A w \in Workers : wpc[w] = "idle"
    /\ \A u \in Uploads : upc[u] \in {"idle", "done"}

\* C10: every record persisted as pending is processed in the end: with
\* every event delivered, every failed invocation retried and nothing left
\* to run, no record is still pending.
C10_NoRecordLeftPending ==
    Quiescent => \A r \in table : r.status = "processed"

\* C11: every record the worker has updated is processed with a
\* processed_at, and with a summary when it has a letter body.
C11_RoundTrip ==
    \A r \in table :
        r.status = "processed"
        => /\ ProcessedAtOf(r) # Null
           /\ ~Falsy(r.letter_body) => SummaryOf(r) # Null

\* C12: the step in which the summarizer fails puts the invocation in its
\* failed state and leaves the table and the events as they were; the failed
\* invocation does nothing but hand its whole batch back for a retry.
C12_SummarizerFailurePropagates ==
    [][\A w \in Workers :
          /\ (werror'[w] = "summarizer" /\ werror[w] # "summarizer")
             => /\ wpc[w] = "summarize"
                /\ wpc'[w] = "threw"
                /\ table' = table
                /\ pending' = pending
                /\ wbatch'[w] = wbatch[w]
          /\ (werror[w] = "summarizer" /\ WorkerStepsFailed(w))
             => /\ wpc'[w] = "idle"
                /\ table' = table
                /\ pending' = pending (+) BagOfSeq(wbatch[w])]_vars

C12_Witness ==
    \E w \in Workers :
        /\ wpc[w] = "threw"
        /\ werror[w] = "summarizer"
        /\ \E r \in table :
              /\ r.s3_key = CurrentKey(w)
              /\ r.status = "pending"
              /\ "summary" \notin DOMAIN r
              /\ "processed_at" \notin DOMAIN r

\* C13: the position of an invocation in its batch moves one event at a
\* time, and only from the lookup or the update of the event before; a
\* failure at event k ends the handling at k (no event after k is touched:
\* the invocation only hands the batch back), and neither the failure nor the
\* retry changes a record.
C13_SequentialBatch ==
    [][\A w \in Workers :
          /\ werror'[w] # "none" => wpc'[w] = "threw"
          /\ widx'[w] # widx[w] => widx'[w] \in {widx[w] + 1, 0}
          /\ (widx'[w] = widx[w] + 1 /\ widx[w] >= 1)
             => wpc[w] \in {"lookup", "update"} /\ wpc'[w] = "lookup"
          /\ (wpc[w] # "threw" /\ wpc'[w] = "threw")
             => /\ table' = table
                /\ widx'[w] = widx[w]
                /\ wbatch'[w] = wbatch[w]
          /\ wpc[w] = "threw"
             => \/ /\ wpc'[w] = "threw"
                   /\ widx'[w] = widx[w]
                   /\ wbatch'[w] = wbatch[w]
                \/ /\ wpc'[w] = "idle"
                   /\ table' = table
                   /\ pending' = pending (+) BagOfSeq(wbatch[w])]_vars

C13_Witness ==
    \E w \in Workers :
        /\ wpc[w] = "threw"
        /\ widx[w] = 1
        /\ Len(wbatch[w]) = 2

\* C14: a record found without a letter body goes from the lookup straight
\* to the update with a null summary (the summarizer is reached only with a
\* body), and the update makes it processed with a null summary and the
\* timestamp of that instant.
C14_NoBodyProcessedDirectly ==
    [][\A w \in Workers :
          /\ wpc[w] = "summarize" => ~Falsy(wrec[w].letter_body)
          /\ (wpc[w] = "lookup" /\ wpc'[w] \in {"summarize", "update"}
                /\ Falsy(wrec'[w].letter_body))
             => wpc'[w] = "update" /\ wsummary'[w] = Null
          /\ (wpc[w] = "update" /\ WorkerSteps(w) /\ wpc'[w] # "threw"
                /\ Falsy(wrec[w].letter_body))
             => \E q \in table' :
                   /\ SameKey(q, wrec[w])
                   /\ q.status = "processed"
                   /\ q.summary = Null
                   /\ q.processed_at = IsoTable[now]]_vars

C14_Witness ==
    \E r \in table :
        /\ Falsy(r.letter_body)
        /\ r.status = "processed"
        /\ r.summary = Null
        /\ r.processed_at # Null

\* the key of an event is the key of a PDF
IsPdfKey(k) == endsWith(toLowerCase(decodeEventKey(k)), DotPdf)

SummaryAttributeNames == {"status", "summary", "processed_at"}

\* C16: a successful update leaves every record with another key as it was,
\* creates no record, and changes of the record with the key of the record
\* looked up nothing but status, summary and processed_at.
C16_UpdateFrame ==
    [][\A w \in Workers :
          (wpc[w] = "update" /\ WorkerSteps(w) /\ wpc'[w] # "threw")
          => /\ \A r \in table : ~SameKey(r, wrec[w]) => r \in table'
             /\ \A r \in table :
                   SameKey(r, wrec[w])
                   => \E q \in table' :
                         /\ SameKey(q, r)
                         /\ DOMAIN q = DOMAIN r \cup SummaryAttributeNames
                         /\ \A a \in DOMAIN r \ SummaryAttributeNames : q[a] = r[a]
             /\ Cardinality(table') = Cardinality(table)
             /\ s3' = s3]_vars

C16_Witness ==
    \E r, q \in table :
        /\ r.status = "processed"
        /\ q.status = "pending"
        /\ \E w \in Workers : wpc[w] = "lookup" /\ widx[w] = 2

\* C17: a record write of an upload whose key (pk, uploaded_at) is the key
\* of a record in the table fails: the table stays as it was and the upload
\* does not return 200.
C17_PutNeverOverwrites ==
    [][\A u \in Uploads :
          (/\ upc[u] = "ddbput"
           /\ upc'[u] # "ddbput"
           /\ \E r \in table : SameKey(r, DbItem(u, now)))
          => /\ table' = table
             /\ uresp'[u].statusCode # 200]_vars

AllDigits(str) == \A i \in 1..Len(str) : IsDigit(str[i])

\* a non-empty string of digits
IsIdentifier(pk) == Len(pk) > 0 /\ AllDigits(pk)

\* UNKNOWN-<timestamp>
IsPlaceholder(pk) ==
    /\ Len(pk) > 8
    /\ SubSeq(pk, 1, 8) = <<"U", "N", "K", "N", "O", "W", "N", "-">>
    /\ AllDigits(SubSeq(pk, 9, Len(pk)))

\* C18: the pk of every record in the table is a non-empty string of digits
\* or UNKNOWN-<timestamp>; the record an upload writes has the extracted
\* number as pk when there is one and the placeholder when there is none;
\* and the number extracted from each sampled letter is absent (null or
\* empty) or a non-empty string of digits.
C18_IdentifierShape ==
    /\ \A r \in table : IsIdentifier(r.pk) \/ IsPlaceholder(r.pk)
    /\ \A u \in Uploads :
          Len(uwrites[u]) = 2
          => IF Falsy(udet[u].nhsNumber)
             THEN IsPlaceholder(uwrites[u][2].item.pk)
             ELSE /\ uwrites[u][2].item.pk = udet[u].nhsNumber
                  /\ IsIdentifier(udet[u].nhsNumber)
    /\ \A body \in DOMAIN DetailsTable :
          Falsy(DetailsTable[body].nhsNumber) \/ IsIdentifier(DetailsTable[body].nhsNumber)

C18_Witness ==
    \E r, q \in table : IsIdentifier(r.pk) /\ IsPlaceholder(q.pk)

\* a structured 5xx response
Is5xx(response) ==
    /\ response.statusCode >= 500
    /\ {"error", "message"} \subseteq DOMAIN response

\* C19: an upload whose blob put or record put does not take place, or
\* whose duplicate query cannot have answered (a record of its identifier and
\* hash is in the table and it is not reported as a duplicate), ends in that
\* step with a structured 5xx response.
C19_StoreFailureIs5xx ==
    [][\A u \in Uploads :
          /\ (upc[u] \in {"s3put", "ddbput"} /\ upc'[u] # upc[u]
                /\ uwrites'[u] = uwrites[u])
             => upc'[u] = "done" /\ Is5xx(uresp'[u])
          /\ (/\ upc[u] = "idle"
              /\ upc'[u] # "idle"
              /\ ureq'[u] \in ValidRequests
              /\ ~Falsy(udet'[u].nhsNumber)
              /\ \E r \in table :
                    /\ r.pk = udet'[u].nhsNumber
                    /\ r.content_hash = generateContentHash(ureq'[u].body)
              /\ uresp'[u].statusCode # 409)
             => upc'[u] = "done" /\ Is5xx(uresp'[u])]_vars

\* the record write of upload u failed after its blob write
RecordWriteFailed(u) ==
    /\ upc[u] = "done"
    /\ uresp[u].statusCode = 500
    /\ uresp[u].message = "dynamodb"

\* no other upload has written a record under the file name of upload u
SoleWriter(u) ==
    \A v \in Uploads \ {u} : ~(ufile[v] = ufile[u] /\ Len(uwrites[v]) = 2)

C21_SummaryOnlyOnTransition ==
    /\ [](\A r \in table :
             /\ r.status = "pending"
                => "summary" \notin DOMAIN r /\ "processed_at" \notin DOMAIN r
             /\ r.status = "processed"
                => "processed_at" \in DOMAIN r /\ r.processed_at # Null)
    /\ [][\A q \in table' :
             (q \notin table /\ DOMAIN q \cap {"summary", "processed_at"} # {})
             => /\ q.status = "processed"
                /\ {"summary", "processed_at"} \subseteq DOMAIN q
                /\ \E r \in table : SameKey(r, q) /\ r.status = "pending"]_vars

\* the date of the first piece of fs of the highest-priority kind present:
\* long form before short numeric before ISO
ExpectedDate(fs) ==
    LET of(kind) == {i \in DOMAIN fs : fs[i].kind = kind}
        first(S) == fs[CHOOSE i \in S : \A j \in S : i <= j].date
    IN  IF of("long") # {} THEN first(of("long"))
        ELSE IF of("short") # {} THEN first(of("short"))
        ELSE IF of("iso") # {} THEN first(of("iso"))
        ELSE Null

\* YYYY-MM-DD
IsDateShape(d) ==
    /\ Len(d) = 10
    /\ DigitsAt(d, 1, 4) /\ d[5] = "-"
    /\ DigitsAt(d, 6, 2) /\ d[8] = "-"
    /\ DigitsAt(d, 9, 2)

\* C22: the letter date of a text is the date of its long-form piece when it
\* has one, else of its short numeric piece (day first), else of its ISO
\* piece, wherever the pieces stand in the text, and null when it has none;
\* a letter date that is not null is written YYYY-MM-DD.
C22_DatePriority ==
    \A i \in DOMAIN xout :
        xout[i].value # TypeError
        => /\ \A fs \in FragmentSeqs :
                 xin = Join(fs) => xout[i].value.letter_date = ExpectedDate(fs)
           /\ \/ xout[i].value.letter_date = Null
              \/ IsDateShape(xout[i].value.letter_date)

\* the extractor has returned the long-form date of a text that begins with
\* an ISO date
C22_Witness ==
    /\ xout # <<>>
    /\ xin = Join(<<FragIso, FragLong>>)
    /\ xout[1].value.letter_date = FragLong.date

\* what the extractor returns when it finds nothing
NothingExtracted == [nhsNumber |-> Null, letter_date |-> Null, body |-> Null]

\* C23: called on the empty text or on a missing text, the extractor returns
\* nhsNumber, letter_date and body all null and does not throw.
C23_AbsenceIsNull ==
    xin \in {<<>>, Null}
    => \A i \in DOMAIN xout : xout[i].value = NothingExtracted

\* date strings that do not begin with YYYY-MM
MalformedDates ==
    {<<"2", "9", "/", "0", "1", "/", "2", "0", "2", "5">>,
     <<"2", "0", "2", "5", "-", "1", "-", "2", "9">>,
     <<"2", "0", "2", "5">>,
     <<"J", "a", "n", " ", "2", "0", "2", "5">>}

\* C24: every record in the table has as date_partition the first seven
\* characters (YYYY-MM) of its uploaded_at, and as letter_date_partition the
\* first seven characters of its letter_date, or null exactly when its
\* letter_date is null; the same holds of the partition of every sampled
\* letter's date, and getDatePartition returns null on null, on the empty
\* string and on malformed dates.
C24_Partitions ==
    /\ \A r \in table :
          /\ r.date_partition = SubSeq(r.uploaded_at, 1, 7)
          /\ r.letter_date = Null <=> r.letter_date_partition = Null
          /\ r.letter_date # Null
             => r.letter_date_partition = SubSeq(r.letter_date, 1, 7)
    /\ \A body \in DOMAIN DetailsTable :
          LET d == DetailsTable[body].letter_date
          IN  getDatePartition(d) = IF d = Null THEN Null ELSE SubSeq(d, 1, 7)
    /\ getDatePartition(Null) = Null
    /\ getDatePartition(<<>>) = Null
    /\ \A d \in MalformedDates : getDatePartition(d) = Null

\* both accepted letters have their records in the table
C24_Witness ==
    /\ \A u \in Uploads : upc[u] = "done" /\ uresp[u].statusCode = 200
    /\ \E r, q \in table : r.letter_date # q.letter_date

MonthOf(t) == SubSeq(IsoTable[t], 1, 7)

C27_CheckThenWriteRaces ==
    \A u \in Uploads :
        /\ upc[u] = "s3put" => ENABLED (UploadS3Put(u) /\ upc'[u] = "ddbput")
        /\ upc[u] = "ddbput"
           => ENABLED (/\ UploadDdbPut(u)
                       /\ uresp'[u].statusCode = 200
                       /\ DbItem(u, now) \in table')

\* two uploads of the same bytes with the same extracted identifier have both
\* passed the duplicate check before either has written its record
C27_Witness ==
    /\ table = {}
    /\ \A u \in Uploads :
          /\ upc[u] = "ddbput"
          /\ ~Falsy(udet[u].nhsNumber)
    /\ \A u, v \in Uploads : ureq[u].body = ureq[v].body

\* C28: two uploads accepted under one file name leave two records with that
\* s3_key in the table; and an update of a worker changes one record, that
\* of its lookup, and leaves every other record as it was, those with the
\* same s3_key included.
C28_OneRecordPerEvent ==
    /\ [](\A u, v \in Uploads :
             (/\ u # v
              /\ upc[u] = "done" /\ uresp[u].statusCode = 200
              /\ upc[v] = "done" /\ uresp[v].statusCode = 200
              /\ ufile[u] = ufile[v])
             => /\ ufile[u] \in DOMAIN s3
                /\ Cardinality({r \in table : r.s3_key = ufile[u]}) >= 2)
    /\ [][\A w \in Workers :
             (wpc[w] = "update" /\ WorkerSteps(w) /\ wpc'[w] # "threw")
             => /\ \A r \in table : ~SameKey(r, wrec[w]) => r \in table'
                /\ Cardinality(table \ table') <= 1]_vars

\* the record items upload u has written
RecordItems(u) ==
    {uwrites[u][i].item : i \in {j \in DOMAIN uwrites[u] : uwrites[u][j].op = "record"}}

\* upload u has begun and holds no extracted identifier
NoIdentifier(u) == upc[u] # "idle" /\ Falsy(udet[u].nhsNumber)

\* u and v are two accepted uploads of the same bytes without identifier
SameBytesNoIdentifier(u, v) ==
    /\ u # v
    /\ upc[u] = "done" /\ uresp[u].statusCode = 200
    /\ upc[v] = "done" /\ uresp[v].statusCode = 200
    /\ ureq[u].body = ureq[v].body
    /\ NoIdentifier(u) /\ NoIdentifier(v)

\* C29 as stated: bytes without extractable identifier are never rejected as
\* duplicates, and two accepted uploads of such bytes have written records
\* with distinct UNKNOWN-<timestamp> identifiers and equal content_hash.
C29_DistinctPlaceholders ==
    /\ \A u \in Uploads :
          NoIdentifier(u) /\ upc[u] = "done" => uresp[u].statusCode # 409
    /\ \A u, v \in Uploads :
          SameBytesNoIdentifier(u, v)
          => \A a \in RecordItems(u), b \in RecordItems(v) :
                /\ IsPlaceholder(a.pk) /\ IsPlaceholder(b.pk)
                /\ a.content_hash = b.content_hash
                /\ a.pk # b.pk

\* C29, amended: bytes without extractable identifier are never rejected as
\* duplicates; two accepted uploads of such bytes have each written a record
\* with an UNKNOWN-<timestamp> identifier and the same content_hash; the two
\* records are both in the table when their identifiers or their uploaded_at
\* differ.
C29_PlaceholdersPerWrite ==
    /\ \A u \in Uploads :
          NoIdentifier(u) /\ upc[u] = "done" => uresp[u].statusCode # 409
    /\ \A u, v \in Uploads :
          SameBytesNoIdentifier(u, v)
          => /\ RecordItems(u) # {} /\ RecordItems(v) # {}
             /\ \A a \in RecordItems(u), b \in RecordItems(v) :
                   /\ IsPlaceholder(a.pk) /\ IsPlaceholder(b.pk)
                   /\ a.content_hash = b.content_hash
                   /\ ~SameKey(a, b)
                      => \E r, q \in table :
                            /\ r # q
                            /\ SameKey(r, a) /\ SameKey(q, b)
                            /\ r.content_hash = q.content_hash

\* two uploads of the same bytes without identifier are accepted and their
\* two records are in the table
C29_Witness ==
    \E u, v \in Uploads :
        /\ SameBytesNoIdentifier(u, v)
        /\ \E r, q \in table :
              /\ r # q
              /\ IsPlaceholder(r.pk) /\ IsPlaceholder(q.pk)
              /\ r.content_hash = q.content_hash

\* C30: the update of a worker leaves the record of its lookup with status
\* processed and with the summary and the processed_at of that one update,
\* whatever that record held before and whatever other invocation is under
\* way; so a processed record never combines the summary of one invocation
\* with the processed_at of another.
C30_UpdateIsOneWrite ==
    [][\A w \in Workers :
          (wpc[w] = "update" /\ WorkerSteps(w) /\ wpc'[w] # "threw")
          => \E q \in table' :
                /\ SameKey(q, wrec[w])
                /\ q.status = "processed"
                /\ q.summary = wsummary[w]
                /\ q.processed_at = IsoTable[now]]_vars

\* two invocations have each read one record as pending and each hold a
\* summary for it; they are both about to update it, with different
\* summaries
C30_Witness ==
    \E w, v \in Workers :
        /\ w # v
        /\ wpc[w] = "update" /\ wpc[v] = "update"
        /\ wrec[w] = wrec[v]
        /\ wrec[w].status = "pending"
        /\ wsummary[w] # wsummary[v]

=============================================================================
